---- MODULE Spec2Model ----
(***************************************************************************)
(* Limit order books, open-order registry, ledger and tick loop of the     *)
(* option game (src/main.py).                                              *)
(*                                                                         *)
(* An order is the tuple <<price, size, team_id, order_id>> of the source. *)
(* Prices are integers (price ticks): arithmetic on them is exact.         *)
(*                                                                         *)
(* Strategies are external: a strategy call returns any list of at most    *)
(* MaxReq requests.  this_tick_orders / last_tick_orders only feed the     *)
(* strategies and team_pnl_history only records reads of team_cash, so     *)
(* neither is part of the state.  match_orders is modelled one loop        *)
(* iteration per step; no other operation runs while it is in progress.    *)
(***************************************************************************)
EXTENDS Integers, Sequences, FiniteSets, TLC

\* ---------------------------------------------------------------- bounds
NumStrikes == 1      \* how many of the STRIKES are in the universe (2 symbols each)
MaxPrice   == 2      \* strategies quote prices 1..MaxPrice
MaxSize    == 2      \* strategies request sizes -1..MaxSize
MaxReq     == 2      \* longest list a strategy call returns
MaxOrders  == 3      \* cap on ORDER_ID_COUNTER
MaxTicks   == 2      \* cap on the ticks that are run
MaxRank    == 2      \* the deck holds the ranks 1..MaxRank

\* ------------------------------------------------------ program constants
N_TEAMS   == 3
NUM_TICKS == 50

STRIKES      == <<50, 60, 70, 80, 90>>
OPTION_TYPES == <<"C", "P">>

\* the strikes of the bounded universe: the first NumStrikes of STRIKES
UniverseStrikes == SubSeq(STRIKES, 1, NumStrikes)

\* [(strike, opt_type) for strike in STRIKES for opt_type in OPTION_TYPES]
ALL_OPTION_SYMBOLS ==
    [k \in 1..(Len(UniverseStrikes) * Len(OPTION_TYPES)) |->
        << UniverseStrikes[((k - 1) \div Len(OPTION_TYPES)) + 1],
           OPTION_TYPES[((k - 1) % Len(OPTION_TYPES)) + 1] >>]

Symbols == {ALL_OPTION_SYMBOLS[k] : k \in DOMAIN ALL_OPTION_SYMBOLS}
Teams   == 0..(N_TEAMS - 1)
Sides   == {"BUY", "SELL"}
Prices  == 1..MaxPrice
Sizes   == (0 - 1)..MaxSize

\* an order request of a strategy: (symbol, side, price, size)
Requests == Symbols \X Sides \X Prices \X Sizes

Min(a, b) == IF a <= b THEN a ELSE b

VARIABLES
    order_books,       \* symbol -> [bids, asks], each a sequence of orders
    open_orders,       \* (team_id, order_id) -> (symbol, side, price, size)
    team_cash,         \* team_id -> cash
    team_positions,    \* team_id -> symbol -> position
    ORDER_ID_COUNTER,
    tick,              \* run_simulation: the tick being run
    t_id,              \* run_simulation: the team whose strategy is up
    new_orders,        \* run_simulation: requests of the current strategy call still to place
    symIdx,            \* match_orders: index into ALL_OPTION_SYMBOLS
    trade,             \* match_orders: locals of the last loop iteration
    pc,                \* position in run_simulation / match_orders
    final_sum,         \* run_simulation: the final sum of the cards (0 until it is read)
    final_pnls,        \* run_simulation: team_id -> final PnL (empty until settlement)
    match_calls,       \* history: the calls of match_orders made so far
    loop_trades,       \* history: the iterations of the crossing loop on the current symbol
    loop_resting       \* history: the orders resting in the current symbol when its loop began

vars == << order_books, open_orders, team_cash, team_positions, ORDER_ID_COUNTER,
           tick, t_id, new_orders, symIdx, trade, pc,
           final_sum, final_pnls, match_calls, loop_trades, loop_resting >>

\* the locals of the settlement and the history variables
settlement == << final_sum, final_pnls >>
history    == << match_calls, loop_trades, loop_resting >>

NoTrade == [symbol |-> << >>]

create_empty_orderbook == [bids |-> << >>, asks |-> << >>]

Init ==
    /\ order_books = [s \in Symbols |-> create_empty_orderbook]
    /\ open_orders = << >>
    /\ team_cash = [t \in Teams |-> 0]
    /\ team_positions = [t \in Teams |-> [s \in Symbols |-> 0]]
    /\ ORDER_ID_COUNTER = 0
    /\ tick = 1
    /\ t_id = 0
    /\ new_orders = << >>
    /\ symIdx = 0
    /\ trade = NoTrade
    /\ pc = "strategy"
    /\ final_sum = 0
    /\ final_pnls = << >>
    /\ match_calls = 0
    /\ loop_trades = 0
    /\ loop_resting = 0

\* ------------------------------------------------------------ place_order
\* the insertion tests of the two scans
\* faulty variant, used to test the properties: the test of the bid scan turned around
BidGoesBeforeReversed(price, resting) == price < resting[1]
BidGoesBefore(price, resting) == price > resting[1]
\* faulty variant, used to test the properties: the ask scan also stops at an equal price
AskGoesBeforeOrEqual(price, resting) == price <= resting[1]
AskGoesBefore(price, resting) == price < resting[1]

InsertAt(q, i, order) == SubSeq(q, 1, i - 1) \o << order >> \o SubSeq(q, i, Len(q))

\* for i in range(len(bids)): if price > bids[i][0]: insert, break; else append
InsertBid(bids, order) ==
    LET hits == {i \in 1..Len(bids) : BidGoesBefore(order[1], bids[i])}
    IN  IF hits = {} THEN Append(bids, order)
        ELSE InsertAt(bids, CHOOSE i \in hits : \A j \in hits : i <= j, order)

\* faulty variant, used to test the properties: an ask always goes to the back
InsertAskLast(asks, order) == Append(asks, order)

\* for i in range(len(asks)): if price < asks[i][0]: insert, break; else append
InsertAsk(asks, order) ==
    LET hits == {i \in 1..Len(asks) : AskGoesBefore(order[1], asks[i])}
    IN  IF hits = {} THEN Append(asks, order)
        ELSE InsertAt(asks, CHOOSE i \in hits : \A j \in hits : i <= j, order)

\* faulty variant, used to test the properties: only negative sizes, or only size zero, are discarded
DiscardedNegativeOnly(size) == size < 0
DiscardedZeroOnly(size) == size = 0

\* if size <= 0: return
Discarded(size) == size <= 0

\* open_orders[(team_id, order_id)] = value
RegistrySet(reg, key, value) ==
    [k \in (DOMAIN reg) \cup {key} |-> IF k = key THEN value ELSE reg[k]]

\* faulty variant, used to test the properties: the entry of a filled order is kept
RegistryDelKept(reg, key) == reg

\* del open_orders[key], guarded by "in"
RegistryDel(reg, key) == [k \in (DOMAIN reg) \ {key} |-> reg[k]]

\* faulty variant, used to test the properties: the counter is not advanced
NextOrderIdStuck(counter) == 1

\* ORDER_ID_COUNTER += 1; order_id = ORDER_ID_COUNTER
NextOrderId(counter) == counter + 1

place_order(team_id, symbol, side, price, size) ==
    LET order_id == NextOrderId(ORDER_ID_COUNTER)
        order    == << price, size, team_id, order_id >>
        book     == order_books[symbol]
    IN  /\ ORDER_ID_COUNTER' = order_id
        /\ IF Discarded(size)
           THEN UNCHANGED << order_books, open_orders >>
           ELSE /\ order_books' =
                      IF side = "BUY"
                      THEN [order_books EXCEPT ![symbol].bids = InsertBid(book.bids, order)]
                      ELSE [order_books EXCEPT ![symbol].asks = InsertAsk(book.asks, order)]
                /\ open_orders' = RegistrySet(open_orders, << team_id, order_id >>,
                                              << symbol, side, price, size >>)
        /\ UNCHANGED << team_cash, team_positions >>

\* ----------------------------------------------------------- match_orders
CurSymbol == ALL_OPTION_SYMBOLS[symIdx]

\* faulty variant, used to test the properties: equal prices do not cross
CrossedStrict(bids, asks) == bids # << >> /\ asks # << >> /\ bids[1][1] > asks[1][1]

\* faulty variant, used to test the properties: the price test of the loop turned around
CrossedReversed(bids, asks) == bids # << >> /\ asks # << >> /\ bids[1][1] <= asks[1][1]

\* faulty variant, used to test the properties: the prices are not compared
CrossedAnyPrice(bids, asks) == bids # << >> /\ asks # << >>

\* faulty variant, used to test the properties: a team does not trade with itself
CrossedNoSelf(bids, asks) ==
    bids # << >> /\ asks # << >> /\ bids[1][1] >= asks[1][1] /\ bids[1][3] # asks[1][3]

\* while bids and asks and (bids[0][0] >= asks[0][0])
Crossed(bids, asks) == bids # << >> /\ asks # << >> /\ bids[1][1] >= asks[1][1]

\* faulty variant, used to test the properties: the trade executes at the bid's price
TradePriceBid(bid, ask) == bid[1]

\* trade_price = best_ask_price
TradePrice(bid, ask) == ask[1]

\* traded_size = min(bid_size, ask_size)
TradedSize(bid, ask) == Min(bid[2], ask[2])

\* faulty variant, used to test the properties: the seller is debited too
CashAfterBothDebited(cash, bid_team, ask_team, amount) ==
    LET debited == [cash EXCEPT ![bid_team] = @ - amount]
    IN  [debited EXCEPT ![ask_team] = @ - amount]

\* team_cash[bid_team] -= price * size ; team_cash[ask_team] += price * size
CashAfter(cash, bid_team, ask_team, amount) ==
    LET debited == [cash EXCEPT ![bid_team] = @ - amount]
    IN  [debited EXCEPT ![ask_team] = @ + amount]

\* faulty variant, used to test the properties: the seller's position is not reduced
PositionsAfterBuyerOnly(pos, bid_team, ask_team, symbol, size) ==
    [pos EXCEPT ![bid_team][symbol] = @ + size]

\* faulty variant, used to test the properties: a trade moves the positions in every symbol
PositionsAfterEverySymbol(pos, bid_team, ask_team, symbol, size) ==
    LET bought == [pos EXCEPT ![bid_team] = [u \in DOMAIN @ |-> @[u] + size]]
    IN  [bought EXCEPT ![ask_team] = [u \in DOMAIN @ |-> @[u] - size]]

\* team_positions[bid_team][symbol] += size ; team_positions[ask_team][symbol] -= size
PositionsAfter(pos, bid_team, ask_team, symbol, size) ==
    LET bought == [pos EXCEPT ![bid_team][symbol] = @ + size]
    IN  [bought EXCEPT ![ask_team][symbol] = @ - size]

\* faulty variant, used to test the properties: a filled order stays at the front
QueueAfterKeepsFilled(q, new_size) ==
    IF new_size < 0 THEN Tail(q)
    ELSE [q EXCEPT ![1] = << q[1][1], new_size, q[1][3], q[1][4] >>]

\* the front of a queue after a fill that leaves new_size
QueueAfter(q, new_size) ==
    IF new_size <= 0 THEN Tail(q)
    ELSE [q EXCEPT ![1] = << q[1][1], new_size, q[1][3], q[1][4] >>]

\* faulty variant, used to test the properties: a partial fill leaves the registry entry at the old size
RegistryAfterStale(reg, order, symbol, side, new_size) ==
    IF new_size <= 0 THEN RegistryDel(reg, << order[3], order[4] >>) ELSE reg

\* the registry after a fill of `order` (resting in symbol/side) that leaves new_size
RegistryAfter(reg, order, symbol, side, new_size) ==
    IF new_size <= 0 THEN RegistryDel(reg, << order[3], order[4] >>)
    ELSE RegistrySet(reg, << order[3], order[4] >>, << symbol, side, order[1], new_size >>)

\* the while loop of one symbol run to its end on the books, registry, cash and
\* positions of st
RECURSIVE CrossBook(_, _)
CrossBook(st, symbol) ==
    LET bids == st.books[symbol].bids
        asks == st.books[symbol].asks
    IN  IF ~Crossed(bids, asks) THEN st
        ELSE LET bid          == bids[1]
                 ask          == asks[1]
                 trade_price  == TradePrice(bid, ask)
                 traded_size  == TradedSize(bid, ask)
                 new_bid_size == bid[2] - traded_size
                 new_ask_size == ask[2] - traded_size
             IN  CrossBook(
                    [books |-> [st.books EXCEPT
                                   ![symbol].bids = QueueAfter(bids, new_bid_size),
                                   ![symbol].asks = QueueAfter(asks, new_ask_size)],
                     reg   |-> RegistryAfter(RegistryAfter(st.reg, bid, symbol, "BUY", new_bid_size),
                                             ask, symbol, "SELL", new_ask_size),
                     cash  |-> CashAfter(st.cash, bid[3], ask[3], trade_price * traded_size),
                     pos   |-> PositionsAfter(st.pos, bid[3], ask[3], symbol, traded_size)],
                    symbol)

\* match_orders as a whole, with the symbols visited in the order given by symbols
RECURSIVE MatchIn(_, _)
MatchIn(st, symbols) ==
    IF symbols = << >> THEN st
    ELSE MatchIn(CrossBook(st, Head(symbols)), Tail(symbols))

\* the orders resting in the k-th symbol (0 past the last symbol)
RestingAt(k) ==
    IF k \in DOMAIN ALL_OPTION_SYMBOLS
    THEN Len(order_books[ALL_OPTION_SYMBOLS[k]].bids) + Len(order_books[ALL_OPTION_SYMBOLS[k]].asks)
    ELSE 0

\* for symbol in ALL_OPTION_SYMBOLS: the loop is entered
MatchEnter ==
    /\ pc = "match_enter"
    /\ symIdx' = 1
    /\ pc' = "match"
    /\ match_calls' = match_calls + 1
    /\ loop_trades' = 0
    /\ loop_resting' = RestingAt(1)
    /\ UNCHANGED settlement
    /\ UNCHANGED << order_books, open_orders, team_cash, team_positions,
                    ORDER_ID_COUNTER, tick, t_id, new_orders, trade >>

\* one iteration of the crossing loop
MatchTrade ==
    /\ pc = "match"
    /\ symIdx <= Len(ALL_OPTION_SYMBOLS)
    /\ LET symbol == CurSymbol
           bids   == order_books[symbol].bids
           asks   == order_books[symbol].asks
       IN  /\ Crossed(bids, asks)
           /\ LET bid          == bids[1]
                  ask          == asks[1]
                  trade_price  == TradePrice(bid, ask)
                  traded_size  == TradedSize(bid, ask)
                  new_bid_size == bid[2] - traded_size
                  new_ask_size == ask[2] - traded_size
              IN  /\ team_cash' = CashAfter(team_cash, bid[3], ask[3], trade_price * traded_size)
                  /\ team_positions' =
                        PositionsAfter(team_positions, bid[3], ask[3], symbol, traded_size)
                  /\ order_books' = [order_books EXCEPT
                        ![symbol].bids = QueueAfter(bids, new_bid_size),
                        ![symbol].asks = QueueAfter(asks, new_ask_size)]
                  /\ open_orders' =
                        RegistryAfter(RegistryAfter(open_orders, bid, symbol, "BUY", new_bid_size),
                                      ask, symbol, "SELL", new_ask_size)
                  /\ trade' = [symbol |-> symbol, bid |-> bid, ask |-> ask,
                               trade_price |-> trade_price, traded_size |-> traded_size,
                               new_bid_size |-> new_bid_size, new_ask_size |-> new_ask_size]
    /\ loop_trades' = loop_trades + 1
    /\ UNCHANGED << ORDER_ID_COUNTER, tick, t_id, new_orders, symIdx, pc,
                    match_calls, loop_resting >>
    /\ UNCHANGED settlement

\* the loop condition is false: on to the next symbol
MatchNextSymbol ==
    /\ pc = "match"
    /\ symIdx <= Len(ALL_OPTION_SYMBOLS)
    /\ ~Crossed(order_books[CurSymbol].bids, order_books[CurSymbol].asks)
    /\ symIdx' = symIdx + 1
    /\ loop_trades' = 0
    /\ loop_resting' = RestingAt(symIdx + 1)
    /\ UNCHANGED << match_calls, settlement >>
    /\ UNCHANGED << order_books, open_orders, team_cash, team_positions,
                    ORDER_ID_COUNTER, tick, t_id, new_orders, trade, pc >>

\* the symbols are exhausted: match_orders returns
MatchReturn ==
    /\ pc = "match"
    /\ symIdx > Len(ALL_OPTION_SYMBOLS)
    /\ symIdx' = 0
    /\ trade' = NoTrade
    /\ pc' = "mark"
    /\ loop_trades' = 0
    /\ loop_resting' = 0
    /\ UNCHANGED << match_calls, settlement >>
    /\ UNCHANGED << order_books, open_orders, team_cash, team_positions,
                    ORDER_ID_COUNTER, tick, t_id, new_orders >>

\* --------------------------------------------------------- run_simulation
\* what a strategy call may return: the lists of n requests
StrategyResults(n) == [1..n -> Requests]

\* new_orders = strategy_fn(last_tick_orders, t_id, tick)
CallStrategy ==
    /\ pc = "strategy"
    /\ UNCHANGED << settlement, history >>
    /\ \E n \in 0..MaxReq :
          /\ n = 0 \/ ORDER_ID_COUNTER + n <= MaxOrders
          /\ \E reqs \in StrategyResults(n) : new_orders' = reqs
    /\ pc' = "place"
    /\ UNCHANGED << order_books, open_orders, team_cash, team_positions,
                    ORDER_ID_COUNTER, tick, t_id, symIdx, trade >>

\* for (symbol, side, price, size) in new_orders: place_order(t_id, symbol, side, price, size)
PlaceNext ==
    /\ pc = "place"
    /\ new_orders # << >>
    /\ UNCHANGED << settlement, history >>
    /\ LET req == Head(new_orders)
       IN  place_order(t_id, req[1], req[2], req[3], req[4])
    /\ new_orders' = Tail(new_orders)
    /\ UNCHANGED << tick, t_id, symIdx, trade, pc >>

\* faulty variant, used to test the properties: the book is crossed after every team
NextTeamMatchingAtOnce ==
    /\ pc = "place"
    /\ new_orders = << >>
    /\ UNCHANGED << settlement, history >>
    /\ t_id' = (t_id + 1) % N_TEAMS
    /\ pc' = "match_enter"
    /\ UNCHANGED << order_books, open_orders, team_cash, team_positions,
                    ORDER_ID_COUNTER, tick, new_orders, symIdx, trade >>

\* the requests are placed: the next team, or match_orders after the last one
NextTeam ==
    /\ pc = "place"
    /\ new_orders = << >>
    /\ UNCHANGED << settlement, history >>
    /\ IF t_id + 1 < N_TEAMS
       THEN /\ t_id' = t_id + 1
            /\ pc' = "strategy"
       ELSE /\ t_id' = 0
            /\ pc' = "match_enter"
    /\ UNCHANGED << order_books, open_orders, team_cash, team_positions,
                    ORDER_ID_COUNTER, tick, new_orders, symIdx, trade >>

\* faulty variant, used to test the properties: resting orders expire at the tick boundary
EndTickExpiring ==
    /\ pc = "mark"
    /\ UNCHANGED << settlement, history >>
    /\ IF tick + 1 <= NUM_TICKS /\ tick + 1 <= MaxTicks
       THEN tick' = tick + 1 /\ pc' = "strategy"
       ELSE tick' = tick /\ pc' = "settle"
    /\ order_books' = [s \in Symbols |-> create_empty_orderbook]
    /\ open_orders' = << >>
    /\ UNCHANGED << team_cash, team_positions,
                    ORDER_ID_COUNTER, t_id, new_orders, symIdx, trade >>

\* mark to market (reads team_cash only), then the next tick or the end of the loop
EndTick ==
    /\ pc = "mark"
    /\ UNCHANGED << settlement, history >>
    /\ IF tick + 1 <= NUM_TICKS /\ tick + 1 <= MaxTicks
       THEN tick' = tick + 1 /\ pc' = "strategy"
       ELSE tick' = tick /\ pc' = "settle"
    /\ UNCHANGED << order_books, open_orders, team_cash, team_positions,
                    ORDER_ID_COUNTER, t_id, new_orders, symIdx, trade >>

\* --------------------------------------------------------------- settlement
N_RANKS == 13
N_COPIES == 4

\* the ranks of the bounded deck: the first MaxRank of the N_RANKS ranks
Ranks == 1..Min(N_RANKS, MaxRank)

\* team_cards after the deal: one card of the shuffled deck per team, a rank being
\* dealt at most as often as the deck holds it
Deals ==
    {d \in [Teams -> Ranks] : \A r \in Ranks : Cardinality({t \in Teams : d[t] = r}) <= N_COPIES}

RECURSIVE SumCards(_, _)
SumCards(cards, k) == IF k < 0 THEN 0 ELSE cards[k] + SumCards(cards, k - 1)

\* sum(team_cards.values())
get_final_sum_of_cards(cards) == SumCards(cards, N_TEAMS - 1)

Max(a, b) == IF a >= b THEN a ELSE b

\* faulty variant, used to test the properties: the two option types mixed up
option_payoff_swapped(strike, opt_type, final_underlying) ==
    IF opt_type = "P"
    THEN Max(0, final_underlying - strike)
    ELSE Max(0, strike - final_underlying)

option_payoff(strike, opt_type, final_underlying) ==
    IF opt_type = "C"
    THEN Max(0, final_underlying - strike)
    ELSE Max(0, strike - final_underlying)

\* payoff += qty * option_payoff(strike, opt_type, final_sum), over the first k symbols
RECURSIVE PayoffOf(_, _, _)
PayoffOf(positions, k, final) ==
    IF k = 0 THEN 0
    ELSE PayoffOf(positions, k - 1, final)
         + positions[ALL_OPTION_SYMBOLS[k]]
           * option_payoff(ALL_OPTION_SYMBOLS[k][1], ALL_OPTION_SYMBOLS[k][2], final)

\* final_sum = get_final_sum_of_cards(); final_pnls[t_id] = team_cash[t_id] + payoff.
\* team_cards is dealt when the module is loaded and nothing that the state depends
\* on reads it before this point: the deal is drawn here.
Settle ==
    /\ pc = "settle"
    /\ \E team_cards \in Deals :
          LET final == get_final_sum_of_cards(team_cards)
          IN  /\ final_sum' = final
              /\ final_pnls' = [t \in Teams |->
                                  team_cash[t] + PayoffOf(team_positions[t], Len(ALL_OPTION_SYMBOLS), final)]
    /\ pc' = "done"
    /\ UNCHANGED << order_books, open_orders, team_cash, team_positions,
                    ORDER_ID_COUNTER, tick, t_id, new_orders, symIdx, trade, history >>

Next ==
    \/ CallStrategy
    \/ PlaceNext
    \/ NextTeam
    \/ MatchEnter
    \/ MatchTrade
    \/ MatchNextSymbol
    \/ MatchReturn
    \/ EndTick
    \/ Settle

Spec == Init /\ [][Next]_vars

\* ------------------------------------------ the books after a tick's placements
\* place_order applied to a list of calls << team_id, symbol, side, price, size >>
\* in turn, on the books, registry and counter of st
RECURSIVE PlaceAll(_, _)
PlaceAll(st, calls) ==
    IF calls = << >> THEN st
    ELSE LET c        == Head(calls)
             order_id == NextOrderId(st.counter)
             order    == << c[4], c[5], c[1], order_id >>
             book     == st.books[c[2]]
             placed   ==
                 IF Discarded(c[5]) THEN [st EXCEPT !.counter = order_id]
                 ELSE [books   |-> IF c[3] = "BUY"
                                   THEN [st.books EXCEPT ![c[2]].bids = InsertBid(book.bids, order)]
                                   ELSE [st.books EXCEPT ![c[2]].asks = InsertAsk(book.asks, order)],
                       reg     |-> RegistrySet(st.reg, << c[1], order_id >>,
                                               << c[2], c[3], c[4], c[5] >>),
                       counter |-> order_id]
         IN  PlaceAll(placed, Tail(calls))

\* one bid and one ask for every symbol
NSlots == 2 * Len(ALL_OPTION_SYMBOLS)
SlotSymbol(j) == ALL_OPTION_SYMBOLS[(j + 1) \div 2]
SlotSide(j)   == IF j % 2 = 1 THEN "BUY" ELSE "SELL"

\* the state in which match_orders is called in the first tick, after the teams
\* 0, 1, 2 in turn placed at most MaxReq requests each, together one bid and one
\* ask for every symbol, in any order and at any prices and sizes
AfterPlacing ==
    \E tm \in [1..NSlots -> Teams] :
       /\ \A k \in 1..(NSlots - 1) : tm[k] <= tm[k + 1]
       /\ \A t \in Teams : Cardinality({k \in 1..NSlots : tm[k] = t}) <= MaxReq
       /\ \E sl \in [1..NSlots -> 1..NSlots] :
             /\ \A j, k \in 1..NSlots : sl[j] = sl[k] => j = k
             /\ \E pr \in [1..NSlots -> Prices] : \E sz \in [1..NSlots -> 1..MaxSize] :
                   LET calls == [k \in 1..NSlots |->
                                    << tm[k], SlotSymbol(sl[k]), SlotSide(sl[k]), pr[k], sz[k] >>]
                       st    == PlaceAll([books   |-> [s \in Symbols |-> create_empty_orderbook],
                                          reg     |-> << >>,
                                          counter |-> 0], calls)
                   IN  /\ order_books = st.books
                       /\ open_orders = st.reg
                       /\ ORDER_ID_COUNTER = st.counter
    /\ team_cash = [t \in Teams |-> 0]
    /\ team_positions = [t \in Teams |-> [s \in Symbols |-> 0]]
    /\ tick = 1
    /\ t_id = 0
    /\ new_orders = << >>
    /\ symIdx = 0
    /\ trade = NoTrade
    /\ pc = "match_enter"
    /\ final_sum = 0
    /\ final_pnls = << >>
    /\ match_calls = 0
    /\ loop_trades = 0
    /\ loop_resting = 0

InitAfterPlacing == Init \/ AfterPlacing

\* the runs from construction, and the runs from a first tick with full books
SpecAfterPlacing == InitAfterPlacing /\ [][Next]_vars

\* match_orders is straight-line code inside the tick loop: once it is called, its
\* next step is taken
MatchStep == MatchEnter \/ MatchTrade \/ MatchNextSymbol \/ MatchReturn
FairSpec == Init /\ [][Next]_vars /\ WF_vars(MatchStep)

\* ================================================================ claims
bidsOf(s) == order_books[s].bids
asksOf(s) == order_books[s].asks
Queues(s) == << bidsOf(s), asksOf(s) >>

\* the state is just before an iteration of the crossing loop on symbol s
AboutToTrade(s) ==
    /\ pc = "match"
    /\ symIdx \in DOMAIN ALL_OPTION_SYMBOLS
    /\ s = ALL_OPTION_SYMBOLS[symIdx]
    /\ bidsOf(s) # << >>
    /\ asksOf(s) # << >>
    /\ bidsOf(s)[1][1] >= asksOf(s)[1][1]

\* C1: in every reachable state, for every symbol, bid prices are non-increasing
\* and ask prices non-decreasing from front to back.
C1_SortInvariant ==
    \A s \in Symbols :
        /\ \A i, j \in 1..Len(bidsOf(s)) : i < j => bidsOf(s)[i][1] >= bidsOf(s)[j][1]
        /\ \A i, j \in 1..Len(asksOf(s)) : i < j => asksOf(s)[i][1] <= asksOf(s)[j][1]

\* a later bid was inserted ahead of an earlier, lower-priced one
C1_Witness ==
    \E s \in Symbols :
        /\ Len(bidsOf(s)) >= 2
        /\ bidsOf(s)[1][1] > bidsOf(s)[2][1]
        /\ bidsOf(s)[1][4] > bidsOf(s)[2][4]

\* C2: in every reachable state, two orders of equal price resting in the same
\* queue are in placement order: the smaller order id is nearer the front.
C2_FifoWithinPrice ==
    \A s \in Symbols : \A k \in 1..2 :
        LET q == Queues(s)[k]
        IN  \A i, j \in 1..Len(q) : (i < j /\ q[i][1] = q[j][1]) => q[i][4] < q[j][4]

\* two equal-priced asks rest behind one another
C2_Witness ==
    \E s \in Symbols :
        /\ Len(asksOf(s)) >= 2
        /\ asksOf(s)[1][1] = asksOf(s)[2][1]

\* C3: right after match_orders returns, for every symbol one queue is empty or
\* the front bid price is strictly below the front ask price.
C3_NoCrossAfterMatch ==
    pc = "mark" =>
        \A s \in Symbols :
            \/ bidsOf(s) = << >>
            \/ asksOf(s) = << >>
            \/ bidsOf(s)[1][1] < asksOf(s)[1][1]

\* match_orders has returned after trading, and a symbol is left with both a bid and an ask
C3_Witness ==
    /\ pc = "mark"
    /\ \E s \in Symbols :
          /\ bidsOf(s) # << >>
          /\ asksOf(s) # << >>
          /\ \E t \in Teams : team_positions[t][s] # 0

\* the change of a team's cash / position over a step
CashDelta(t)   == team_cash'[t] - team_cash[t]
PosDelta(t, s) == team_positions'[t][s] - team_positions[t][s]

C6_SideOk(q, r, reg, s, side, traded) ==
    LET o   == q[1]
        key == << o[3], o[4] >>
    IN  IF o[2] - traded > 0
        THEN /\ r = << << o[1], o[2] - traded, o[3], o[4] >> >> \o Tail(q)
             /\ key \in DOMAIN reg
             /\ reg[key] = << s, side, o[1], o[2] - traded >>
        ELSE /\ r = Tail(q)
             /\ key \notin DOMAIN reg

\* C6: after one trade, a side with remaining size > 0 is still at the front of
\* its queue with the same price, team and id and its size reduced by the traded
\* size, and its registry entry holds the new size; a side whose remaining size
\* reaches 0 is removed from the front and its (team, id) entry is deleted.
C6_PartialFill ==
    [][\A s \in Symbols : AboutToTrade(s) =>
          LET traded == trade'.traded_size
          IN  /\ traded > 0
              /\ C6_SideOk(bidsOf(s), order_books'[s].bids, open_orders', s, "BUY", traded)
              /\ C6_SideOk(asksOf(s), order_books'[s].asks, open_orders', s, "SELL", traded)]_vars

\* a trade has left the bid partly filled at the front and removed the ask
C6_Witness ==
    /\ trade # NoTrade
    /\ trade.new_bid_size > 0
    /\ trade.new_ask_size = 0
    /\ trade.bid[1] > trade.ask[1]
    /\ bidsOf(trade.symbol) # << >>
    /\ bidsOf(trade.symbol)[1][4] = trade.bid[4]
    /\ bidsOf(trade.symbol)[1][2] = trade.new_bid_size

\* C7: a place_order call with size <= 0 leaves every queue, the registry and every
\* team's cash and positions unchanged, and returns normally to its caller.
C7_NonPositiveSizeNoOp ==
    [][(pc = "place" /\ new_orders # << >> /\ Head(new_orders)[4] <= 0) =>
          /\ order_books' = order_books
          /\ open_orders' = open_orders
          /\ team_cash' = team_cash
          /\ team_positions' = team_positions
          /\ pc' = "place"
          /\ new_orders' = Tail(new_orders)]_vars

\* in the first tick, before any matching, the first request was placed and the
\* second was discarded: two ids are used and one order rests
C7_Witness ==
    /\ tick = 1
    /\ pc = "place"
    /\ ORDER_ID_COUNTER = 2
    /\ DOMAIN open_orders = {<< t_id, 1 >>}
    /\ \E s \in Symbols : Len(bidsOf(s)) + Len(asksOf(s)) = 1

\* C8: in every reachable state an order rests in a queue iff the registry has an
\* entry keyed (team, id), and that entry is (symbol, side, price, size) of the
\* queue the order rests in and of the order as it is now.
C8_BookRegistryConsistent ==
    /\ \A s \in Symbols : \A k \in 1..2 :
          LET q    == Queues(s)[k]
              side == << "BUY", "SELL" >>[k]
          IN  \A i \in 1..Len(q) :
                 /\ << q[i][3], q[i][4] >> \in DOMAIN open_orders
                 /\ open_orders[<< q[i][3], q[i][4] >>] = << s, side, q[i][1], q[i][2] >>
                 \* the key names this order alone
                 /\ \A u \in Symbols : \A m \in 1..2 : \A j \in 1..Len(Queues(u)[m]) :
                       (Queues(u)[m][j][3] = q[i][3] /\ Queues(u)[m][j][4] = q[i][4])
                          => (u = s /\ m = k /\ j = i)
    /\ \A key \in DOMAIN open_orders :
          \E s \in Symbols : \E k \in 1..2 : \E i \in 1..Len(Queues(s)[k]) :
             /\ Queues(s)[k][i][3] = key[1]
             /\ Queues(s)[k][i][4] = key[2]

\* after a trade one order was removed and one, partly filled, rests with its
\* registry entry, next to an untouched order
C8_Witness ==
    /\ trade # NoTrade
    /\ trade.new_bid_size = 0
    /\ trade.new_ask_size > 0
    /\ Cardinality(DOMAIN open_orders) = 2
    /\ << trade.ask[3], trade.ask[4] >> \in DOMAIN open_orders
    /\ << trade.bid[3], trade.bid[4] >> \notin DOMAIN open_orders

\* C9: every order resting in any queue has size > 0 in every reachable state.
C9_SizesPositive ==
    \A s \in Symbols : \A k \in 1..2 :
        \A i \in 1..Len(Queues(s)[k]) : Queues(s)[k][i][2] > 0

\* a request was discarded (id 2 is used, no order carries it) and a trade between
\* orders 1 and 3 filled one of them and left the other resting
C9_Witness ==
    /\ tick = 1
    /\ trade # NoTrade
    /\ {trade.bid[4], trade.ask[4]} = {1, 3}
    /\ (trade.new_bid_size = 0) # (trade.new_ask_size = 0)
    /\ Cardinality(DOMAIN open_orders) = 1

\* q is r with some elements left out (order kept)
RECURSIVE IsSubSeq(_, _)
IsSubSeq(q, r) ==
    IF q = << >> THEN TRUE
    ELSE IF r = << >> THEN FALSE
    ELSE IF Head(q) = Head(r) THEN IsSubSeq(Tail(q), Tail(r))
    ELSE IsSubSeq(q, Tail(r))

\* C10: a resting order stays in the same symbol's same-side queue with the same
\* price, team and id and a size that never grows, until a trade of match_orders
\* fills it completely; a step that is not a trade (a place_order call, a tick
\* boundary, ...) removes, reorders and changes no resting order.
C10_OrderLifecycle ==
    [][\A s \in Symbols : \A k \in 1..2 :
          LET q == Queues(s)[k]
              r == << order_books'[s].bids, order_books'[s].asks >>[k]
          IN  IF AboutToTrade(s)
              THEN \A i \in 1..Len(q) :
                      \/ \E j \in 1..Len(r) :
                            /\ r[j][1] = q[i][1]
                            /\ r[j][3] = q[i][3]
                            /\ r[j][4] = q[i][4]
                            /\ r[j][2] <= q[i][2]
                      \/ /\ i = 1
                         /\ trade'.traded_size = q[i][2]
                         /\ \A u \in Symbols : \A m \in 1..2 :
                               LET w == << order_books'[u].bids, order_books'[u].asks >>[m]
                               IN  \A j \in 1..Len(w) : w[j][4] # q[i][4]
              ELSE IsSubSeq(q, r)]_vars

\* in tick 2 team 0 has placed order 3 ahead of order 1, which another team placed
\* in tick 1 and which still rests
C10_Witness ==
    /\ tick = 2
    /\ pc = "place"
    /\ t_id = 0
    /\ \E s \in Symbols : \E k \in 1..2 :
          LET q == Queues(s)[k]
          IN  /\ Len(q) = 2
              /\ q[1][4] = 3 /\ q[1][3] = 0
              /\ q[2][4] = 1 /\ q[2][3] # 0

\* some symbol's front bid is at or above its front ask
SomeSymbolCrossed ==
    \E s \in Symbols :
        bidsOf(s) # << >> /\ asksOf(s) # << >> /\ bidsOf(s)[1][1] >= asksOf(s)[1][1]

\* C11: the ledger is changed only by trades: a place_order call, whatever its
\* arguments, leaves every team's cash and positions unchanged (as does every step
\* that is not a trade), and match_orders on books in which no symbol is crossed
\* leaves ledger, books and registry unchanged.
C11_LedgerOnlyByTrades ==
    [][/\ (pc = "place" /\ new_orders # << >>) =>
             (team_cash' = team_cash /\ team_positions' = team_positions)
       /\ (~ \E s \in Symbols : AboutToTrade(s)) =>
             (team_cash' = team_cash /\ team_positions' = team_positions)
       /\ (pc \in {"match_enter", "match"} /\ ~SomeSymbolCrossed) =>
             /\ team_cash' = team_cash
             /\ team_positions' = team_positions
             /\ order_books' = order_books
             /\ open_orders' = open_orders]_vars

\* match_orders has run in tick 1 over a symbol with a bid and an ask that do not
\* cross: both placed orders still rest, so no trade was made
C11_Witness ==
    /\ tick = 1
    /\ pc = "mark"
    /\ ORDER_ID_COUNTER = 2
    /\ Cardinality(DOMAIN open_orders) = 2
    /\ \E s \in Symbols : Len(bidsOf(s)) = 1 /\ Len(asksOf(s)) = 1
    /\ \A t \in Teams : team_cash[t] = 0

\* the payoff of one contract of symbol s at the final underlying u, as C12 states it
C12_Payoff(s, u) ==
    IF s[2] = "C"
    THEN (IF u - s[1] > 0 THEN u - s[1] ELSE 0)
    ELSE (IF s[1] - u > 0 THEN s[1] - u ELSE 0)

\* the sum over the symbols of S of position x payoff
RECURSIVE C12_Value(_, _, _)
C12_Value(S, positions, u) ==
    IF S = {} THEN 0
    ELSE LET s == CHOOSE x \in S : TRUE
         IN  positions[s] * C12_Payoff(s, u) + C12_Value(S \ {s}, positions, u)

\* C12: the settlement gives every team final PnL = final cash + the sum over all
\* symbols of position x payoff (call: max(0, final - strike), put: max(0, strike -
\* final)), and changes no team's cash or position and no book.
C12_Settlement ==
    [][pc = "settle" =>
          /\ pc' = "done"
          /\ DOMAIN final_pnls' = Teams
          /\ \A t \in Teams :
                final_pnls'[t] = team_cash[t] + C12_Value(Symbols, team_positions[t], final_sum')
          /\ team_cash' = team_cash
          /\ team_positions' = team_positions
          /\ order_books' = order_books
          /\ open_orders' = open_orders]_vars

\* the run is settled with a team long a put and a team short a put, each with a
\* final PnL that differs from its cash
C12_Witness ==
    /\ pc = "done"
    /\ \E s \in Symbols : \E t, u \in Teams :
          /\ s[2] = "P"
          /\ team_positions[t][s] > 0
          /\ team_positions[u][s] < 0
          /\ final_pnls[t] > team_cash[t]
          /\ final_pnls[u] < team_cash[u]

\* match_orders has been called once in each tick before the current one, and in
\* the current tick once it has been entered
C13_OncePerTick ==
    /\ pc \in {"strategy", "place", "match_enter"} => match_calls = tick - 1
    /\ pc \in {"match", "mark", "settle", "done"} => match_calls = tick

\* C13: in every tick the strategies are called for the teams in ascending order and
\* each team's requests are placed in the order returned, all before match_orders,
\* which runs exactly once per tick; between the start of a tick and its
\* match_orders call no trade is made and no cash or position changes, even while
\* a book is crossed.
C13_TickBatching ==
    [][/\ C13_OncePerTick
       /\ C13_OncePerTick'
       \* a tick starts with team 0
       /\ (pc = "mark" /\ pc' = "strategy") => (t_id' = 0 /\ tick' = tick + 1)
       /\ pc = "strategy" => (pc' = "place" /\ t_id' = t_id /\ tick' = tick)
       \* the requests of the team are placed front to back, under its id
       /\ (pc = "place" /\ new_orders # << >>) =>
             LET req == Head(new_orders)
                 key == << t_id, ORDER_ID_COUNTER + 1 >>
             IN  /\ pc' = "place" /\ t_id' = t_id /\ tick' = tick
                 /\ new_orders' = Tail(new_orders)
                 /\ req[4] > 0 =>
                       /\ key \in DOMAIN open_orders'
                       /\ key \notin DOMAIN open_orders
                       /\ open_orders'[key] = req
       \* then the next team is up; match_orders follows the last team
       /\ (pc = "place" /\ new_orders = << >>) =>
             /\ tick' = tick
             /\ IF t_id < N_TEAMS - 1
                THEN pc' = "strategy" /\ t_id' = t_id + 1
                ELSE pc' = "match_enter"
       /\ pc' = "match_enter" => (pc = "place" /\ t_id = N_TEAMS - 1 /\ new_orders = << >>)
       /\ (pc' = "match" /\ pc # "match") => pc = "match_enter"
       \* before the call: no trade, no change of the ledger, no order leaves a book
       /\ pc \in {"strategy", "place", "match_enter"} =>
             /\ team_cash' = team_cash
             /\ team_positions' = team_positions
             /\ trade' = NoTrade
             /\ \A s \in Symbols :
                   /\ IsSubSeq(bidsOf(s), order_books'[s].bids)
                   /\ IsSubSeq(asksOf(s), order_books'[s].asks)]_vars

\* in tick 1 the last team is placing while the orders of teams 0 and 1 cross a
\* book, and nothing has been traded
C13_Witness ==
    /\ tick = 1
    /\ pc = "place"
    /\ t_id = 2
    /\ match_calls = 0
    /\ \A t \in Teams : team_cash[t] = 0
    /\ \E s \in Symbols :
          /\ bidsOf(s) # << >> /\ asksOf(s) # << >>
          /\ bidsOf(s)[1][1] > asksOf(s)[1][1]
          /\ {bidsOf(s)[1][3], asksOf(s)[1][3]} = {0, 1}

\* C14: order ids are unique and increasing: the counter never decreases, an order
\* that place_order inserts carries the new value of the counter, which is above
\* the old one and so above the id of every order placed before, and every other
\* resting order has a smaller id. A discarded request consumes an id too.
C14_UniqueIncreasingIds ==
    [][/\ ORDER_ID_COUNTER' >= ORDER_ID_COUNTER
       /\ \A s \in Symbols : \A k \in 1..2 : \A i \in 1..Len(Queues(s)[k]) :
             Queues(s)[k][i][4] <= ORDER_ID_COUNTER
       /\ (pc = "place" /\ new_orders # << >> /\ Head(new_orders)[4] > 0) =>
             LET req == Head(new_orders)
                 r   == IF req[2] = "BUY" THEN order_books'[req[1]].bids
                                          ELSE order_books'[req[1]].asks
             IN  /\ ORDER_ID_COUNTER' > ORDER_ID_COUNTER
                 /\ \E i \in 1..Len(r) :
                       /\ r[i] = << req[3], req[4], t_id, ORDER_ID_COUNTER' >>
                       /\ \A u \in Symbols : \A m \in 1..2 :
                             LET w == << order_books'[u].bids, order_books'[u].asks >>[m]
                             IN  \A j \in 1..Len(w) :
                                    (u # req[1] \/ w # r \/ j # i) => w[j][4] < ORDER_ID_COUNTER'
       /\ (pc = "place" /\ new_orders # << >> /\ Head(new_orders)[4] <= 0) =>
             ORDER_ID_COUNTER' > ORDER_ID_COUNTER]_vars

\* three orders with the ids 1, 2, 3 rest in the books
C14_Witness ==
    /\ ORDER_ID_COUNTER = 3
    /\ \A n \in 1..3 : \E s \in Symbols : \E k \in 1..2 : \E i \in 1..Len(Queues(s)[k]) :
          Queues(s)[k][i][4] = n


\* C15: matching does not look at team ids: when the front bid and the front ask of
\* the symbol being matched cross and belong to the same team, the next step is a
\* trade at the ask's price for min(bid size, ask size) > 0, both sizes are reduced
\* by it, a side that reaches 0 leaves its queue and the registry, a side that does
\* not stays at the front with its registry entry updated; the team's cash and its
\* position in the symbol are debited and credited by the same amounts.
C15_SelfTradeExecutes ==
    [][\A s \in Symbols :
          (AboutToTrade(s) /\ bidsOf(s)[1][3] = asksOf(s)[1][3]) =>
             LET bid == bidsOf(s)[1]
                 ask == asksOf(s)[1]
                 n   == Min(bid[2], ask[2])
             IN  /\ trade' # NoTrade
                 /\ trade'.bid = bid /\ trade'.ask = ask
                 /\ trade'.traded_size = n /\ n > 0
                 /\ trade'.trade_price = ask[1]
                 /\ loop_trades' = loop_trades + 1
                 /\ C6_SideOk(bidsOf(s), order_books'[s].bids, open_orders', s, "BUY", n)
                 /\ C6_SideOk(asksOf(s), order_books'[s].asks, open_orders', s, "SELL", n)
                 /\ team_cash' = team_cash
                 /\ team_positions' = team_positions]_vars

\* a team has just traded with itself, its bid was filled and left the registry
C15_Witness ==
    /\ trade # NoTrade
    /\ trade.bid[3] = trade.ask[3]
    /\ trade.new_bid_size = 0
    /\ << trade.bid[3], trade.bid[4] >> \notin DOMAIN open_orders
    /\ \A t \in Teams : team_cash[t] = 0


\* the order q[i] rests unchanged somewhere in the queue r
C16_Untouched(q, i, r) == \E j \in 1..Len(r) : r[j] = q[i]

\* the order q[j] has priority over q[i]: its price is better on that side, or it has
\* the same price and was placed earlier (a smaller id)
C16_Prior(q, j, i, side) ==
    \/ IF side = "BUY" THEN q[j][1] > q[i][1] ELSE q[j][1] < q[i][1]
    \/ q[j][1] = q[i][1] /\ q[j][4] < q[i][4]

\* C16: price-time priority of fills: whenever a step of match_orders reduces or
\* removes a resting order, no other order on the same side of the same symbol
\* rested with a strictly better price, or with an equal price and an earlier
\* placement.
C16_PriceTimePriority ==
    [][pc = "match" =>
          \A s \in Symbols : \A k \in 1..2 :
             LET q    == Queues(s)[k]
                 r    == << order_books'[s].bids, order_books'[s].asks >>[k]
                 side == << "BUY", "SELL" >>[k]
             IN  \A i \in 1..Len(q) :
                    ~C16_Untouched(q, i, r) =>
                       \A j \in 1..Len(q) : j # i => ~C16_Prior(q, j, i, side)]_vars

\* a bid placed later at a better price was filled before an earlier, cheaper bid,
\* which still rests
C16_Witness ==
    /\ trade # NoTrade
    /\ \E s \in Symbols :
          /\ trade.symbol = s
          /\ \E i \in 1..Len(bidsOf(s)) :
                /\ bidsOf(s)[i][1] < trade.bid[1]
                /\ bidsOf(s)[i][4] < trade.bid[4]

\* what match_orders works on, and the orders in which it could visit the symbols
C17_State == [books |-> order_books, reg |-> open_orders,
              cash |-> team_cash, pos |-> team_positions]
C17_Orders ==
    {p \in [1..Len(ALL_OPTION_SYMBOLS) -> Symbols] :
        \A i, j \in 1..Len(ALL_OPTION_SYMBOLS) : p[i] = p[j] => i = j}

C18_Resting(s)     == Len(bidsOf(s)) + Len(asksOf(s))
C18_RestingNext(s) == Len(order_books'[s].bids) + Len(order_books'[s].asks)

\* C18: match_orders terminates: every iteration of the crossing loop takes the
\* front order off the bid queue or off the ask queue and adds none, so the resting
\* orders of the symbol strictly decrease; a step that is not an iteration moves on
\* to the next symbol or returns, and at most Len(ALL_OPTION_SYMBOLS) symbols are
\* visited; the trades made for a symbol in one call plus the orders still resting
\* in it never exceed the orders that rested in it when its loop began; and every
\* call of match_orders returns.
C18_LoopTerminates ==
    /\ [][pc = "match" =>
          /\ symIdx \in 1..(Len(ALL_OPTION_SYMBOLS) + 1)
          /\ \A s \in Symbols : AboutToTrade(s) =>
                /\ symIdx' = symIdx /\ pc' = "match"
                /\ order_books'[s].bids = Tail(bidsOf(s)) \/ order_books'[s].asks = Tail(asksOf(s))
                /\ Len(order_books'[s].bids) <= Len(bidsOf(s))
                /\ Len(order_books'[s].asks) <= Len(asksOf(s))
                /\ C18_RestingNext(s) < C18_Resting(s)
                /\ loop_trades' = loop_trades + 1
                /\ loop_trades' + C18_RestingNext(s) <= loop_resting
                /\ loop_trades' <= loop_resting
          /\ (\A s \in Symbols : ~AboutToTrade(s)) =>
                \/ symIdx' = symIdx + 1 /\ pc' = "match" /\ loop_trades' = 0
                \/ symIdx = Len(ALL_OPTION_SYMBOLS) + 1 /\ pc' = "mark"]_vars
    /\ (pc = "match_enter") ~> (pc = "mark")

\* two trades were made for one symbol in one call, and emptied its book of the
\* three orders that rested in it
C18_Witness ==
    /\ pc = "match"
    /\ loop_trades = 2
    /\ loop_resting = 3
    /\ trade # NoTrade
    /\ C18_Resting(trade.symbol) = 0


\* the sum of f over the teams of T
RECURSIVE C19_Sum(_, _)
C19_Sum(f, T) ==
    IF T = {} THEN 0
    ELSE LET t == CHOOSE x \in T : TRUE
         IN  f[t] + C19_Sum(f, T \ {t})

C20_LimitPricesRespected ==
    [][(pc = "match" /\ loop_trades' = loop_trades + 1) =>
          /\ trade' # NoTrade
          /\ LET s   == trade'.symbol
                 bid == trade'.bid
                 ask == trade'.ask
             IN  /\ bidsOf(s) # << >> /\ bid = bidsOf(s)[1]
                 /\ asksOf(s) # << >> /\ ask = asksOf(s)[1]
                 /\ trade'.trade_price <= bid[1]
                 /\ trade'.trade_price >= ask[1]
                 /\ open_orders[<< bid[3], bid[4] >>][3] = bid[1]
                 /\ open_orders[<< ask[3], ask[4] >>][3] = ask[1]
                 /\ bid[3] # ask[3] =>
                       /\ 0 - CashDelta(bid[3]) <= bid[1] * trade'.traded_size
                       /\ CashDelta(ask[3]) >= ask[1] * trade'.traded_size]_vars

\* a trade below the buyer's limit: the bid was placed at a higher price than the
\* ask it met, and the buyer paid the ask's price
C20_Witness ==
    /\ trade # NoTrade
    /\ trade.bid[1] > trade.ask[1]
    /\ trade.trade_price < trade.bid[1]
    /\ trade.bid[3] # trade.ask[3]
    /\ team_cash[trade.bid[3]] = 0 - trade.ask[1] * trade.traded_size

====
